---- MODULE Spec2Model ----
(***************************************************************************)
(* Model of the AI quota manager (QuotaManager over a Redis counter store) *)
(* and of the AI request handlers that sequence check_quota, the response  *)
(* cache, the model call and use_quota.                                    *)
(*                                                                         *)
(* One process serves the requests.  Handlers are coroutines: they         *)
(* interleave only where they really suspend, which is at the HTTP call to *)
(* the user service inside get_quota_info and at the model call.  The      *)
(* Redis client is the synchronous one, so every run of Redis commands     *)
(* between two suspension points is one atomic step here.                  *)
(*                                                                         *)
(* The second part models the agents' reading of the raw model output:     *)
(* the parse of the JSON block, the line-oriented fallback and the         *)
(* validation of the fields, for text optimization and classification.     *)
(*                                                                         *)
(* The third part models AutoGenAIService (the answer parsed as it comes,  *)
(* the simulation when there is no model or the call fails) and the quota  *)
(* record UserAIQuota of the user service.                                 *)
(***************************************************************************)
EXTENDS Integers, Sequences, FiniteSets, TLC

\* ---------------------------------------------------------------- bounds
NumUsers == 2
MaxCalls == 2
MaxDay == 3
DaysPerMonth == 2
MaxLimit == 2
MaxAmount == 2

Users == 1..NumUsers
Slots == 1..MaxCalls
\* the requests of the model carry one text: one cache key
CacheKeys == {"k"}

VARIABLES
    svc,            \* "new" | "up" | "closed": startup_event / shutdown_event
    is_connected,   \* QuotaManager.is_connected
    cache_connected,\* CacheManager.is_connected
    today,          \* wall clock, in days: datetime.now() at day granularity
    store,          \* Redis: quota key |-> count (a key that is absent is not in the domain)
    cache,          \* Redis response cache: cache key |-> "none" | "ok" | "fallback"
    req,            \* handler slot |-> the locals of the request it is serving
    calls,          \* number of requests and direct API calls received so far
    last,           \* the latest step of a handler or API call, as its caller observes it
    rc              \* the agent call being reconciled: raw model output, position, result

vars == <<svc, is_connected, cache_connected, today, store, cache, req, calls, last, rc>>

\* the state of the quota manager, the cache and the handlers
qvars == <<svc, is_connected, cache_connected, today, store, cache, req, calls, last>>

\* ------------------------------------------------------------ window keys
\* datetime.now().strftime("%Y-%m"): the month a day belongs to
MonthOf(d) == ((d - 1) \div DaysPerMonth) + 1

\* a daily key that leaves the date out
DailyKeyNoDate(u, d) == <<"daily", u, 0>>

\* f"quota:daily:{user_id}:{today}"
DailyKey(u, d) == <<"daily", u, d>>

\* f"quota:monthly:{user_id}:{current_month}"
MonthlyKey(u, d) == <<"monthly", u, MonthOf(d)>>

\* int(redis.get(key) or 0)
StoreGet(s, k) == IF k \in DOMAIN s THEN s[k] ELSE 0

\* a read that would count itself
StoreAfterGetCounting(s, k) ==
    [x \in DOMAIN s \cup {k} |-> IF x = k THEN StoreGet(s, k) + 1 ELSE s[x]]

\* redis.get(key): the store the command leaves
StoreAfterGet(s, k) == s

\* redis.incr(key, count): an absent key counts from 0
StoreIncr(s, k, n) ==
    [x \in DOMAIN s \cup {k} |-> IF x = k THEN StoreGet(s, k) + n ELSE s[x]]

\* a delete that would remove nothing
StoreDeleteNothing(s, k) == s

\* redis.delete(key)
StoreDelete(s, k) == [x \in DOMAIN s \ {k} |-> s[x]]

\* redis.expire(key, seconds) with the seconds left in the key's window.  The
\* expiry removes the counter when its window ends (to the second), and every
\* read and write derives its key from the current date, so a lapsed counter
\* and a stale one read alike: the store keeps the stale counters.
StoreExpire(s, k) == s

\* ----------------------------------------------------------- user service
\* the quota in force for a user, [daily_limit, monthly_limit]: the data the user
\* service holds for the user or, when it yields none, the default free quota.
\* The limits are plan configuration; the model gives the users small ones, a
\* different daily limit from user to user and a monthly limit above them.
plan == [u \in Users |-> [daily_limit |-> ((u - 1) % MaxLimit) + 1,
                          monthly_limit |-> MaxLimit + 1]]

\* ----------------------------------------------------------- QuotaManager
NoInfo == [none |-> TRUE]

UseQuotaFaults == {"none", "incr_daily", "expire_daily", "incr_monthly", "expire_monthly"}

\* user_quota in get_quota_info: _get_user_quota_from_service, then the default
\* quota when it yields nothing
UserQuota(u) == plan[u]

\* a max that would give its second argument
MaxSecond(a, b) == b

Max(a, b) == IF a >= b THEN a ELSE b

\* a get_quota_info that would read the counts without looking at is_connected
GetQuotaInfoReadingAlways(s, conn, d, u, readFault) ==
    IF conn /\ readFault
    THEN NoInfo
    ELSE [daily_limit |-> UserQuota(u).daily_limit,
          daily_used |-> StoreGet(s, DailyKey(u, d)),
          daily_remaining |-> Max(0, UserQuota(u).daily_limit - StoreGet(s, DailyKey(u, d))),
          monthly_limit |-> UserQuota(u).monthly_limit,
          monthly_used |-> StoreGet(s, MonthlyKey(u, d)),
          monthly_remaining |-> Max(0, UserQuota(u).monthly_limit - StoreGet(s, MonthlyKey(u, d)))]

\* QuotaManager.get_quota_info: the report, or NoInfo (None) when a Redis read
\* raises (readFault); the counts are read as 0 while not connected
GetQuotaInfo(s, conn, d, u, readFault) ==
    LET user_quota == UserQuota(u)
        daily_used == IF conn THEN StoreGet(s, DailyKey(u, d)) ELSE 0
        monthly_used == IF conn THEN StoreGet(s, MonthlyKey(u, d)) ELSE 0
    IN  IF conn /\ readFault
        THEN NoInfo
        ELSE [daily_limit |-> user_quota.daily_limit,
              daily_used |-> daily_used,
              daily_remaining |-> Max(0, user_quota.daily_limit - daily_used),
              monthly_limit |-> user_quota.monthly_limit,
              monthly_used |-> monthly_used,
              monthly_remaining |-> Max(0, user_quota.monthly_limit - monthly_used)]

\* QuotaManager.check_quota on the report get_quota_info returned
CheckQuota(quota_info) ==
    IF quota_info = NoInfo THEN FALSE
    ELSE IF quota_info.daily_used >= quota_info.daily_limit THEN FALSE
    ELSE IF quota_info.monthly_used >= quota_info.monthly_limit THEN FALSE
    ELSE TRUE

\* QuotaManager.use_quota: the store it leaves and the value it returns.  fault
\* names the Redis command that raises ("none": no command raises); the except
\* branch returns True as well.  _log_usage swallows its own errors.
UseQuota(s, conn, d, u, n, fault) ==
    IF ~conn
    THEN [store |-> s, ret |-> TRUE]
    ELSE LET s1 == StoreIncr(s, DailyKey(u, d), n)
             s2 == StoreExpire(s1, DailyKey(u, d))
             s3 == StoreIncr(s2, MonthlyKey(u, d), n)
             s4 == StoreExpire(s3, MonthlyKey(u, d))
         IN  CASE fault = "incr_daily"     -> [store |-> s,  ret |-> TRUE]
               [] fault = "expire_daily"   -> [store |-> s1, ret |-> TRUE]
               [] fault = "incr_monthly"   -> [store |-> s2, ret |-> TRUE]
               [] fault = "expire_monthly" -> [store |-> s3, ret |-> TRUE]
               [] OTHER                    -> [store |-> s4, ret |-> TRUE]

\* the store get_quota_info leaves: its Redis commands are the two GETs, sent
\* while connected; a GET that raises ends the function in its except branch
GetQuotaInfoStore(s, conn, d, u) ==
    IF conn
    THEN StoreAfterGet(StoreAfterGet(s, DailyKey(u, d)), MonthlyKey(u, d))
    ELSE s

ResetTypes == {"daily", "monthly", "all", "weekly"}
ResetFaults == {"none", "delete_daily", "delete_monthly"}

\* QuotaManager.reset_user_quota: the store it leaves and the value it
\* returns.  False when not connected; fault names the delete that raises, the
\* except branch returns False and what was deleted before stays deleted.  A
\* quota_type other than daily, monthly, all deletes nothing and returns True.
ResetUserQuota(s, conn, d, u, quota_type, fault) ==
    IF ~conn
    THEN [store |-> s, ret |-> FALSE]
    ELSE LET s1 == IF quota_type \in {"daily", "all"}
                   THEN StoreDelete(s, DailyKey(u, d)) ELSE s
             s2 == IF quota_type \in {"monthly", "all"}
                   THEN StoreDelete(s1, MonthlyKey(u, d)) ELSE s1
         IN  CASE fault = "delete_daily"   -> [store |-> s,  ret |-> FALSE]
               [] fault = "delete_monthly" -> [store |-> s1, ret |-> FALSE]
               [] OTHER                    -> [store |-> s2, ret |-> TRUE]

\* ----------------------------------------------------------- CacheManager
\* CacheManager.get: None when not connected, on a miss or when Redis raises
CacheGet(k, cacheFault) ==
    IF ~cache_connected \/ cacheFault THEN "none" ELSE cache[k]

\* CacheManager.set: setex unless not connected or Redis raises
CacheSet(k, value, cacheFault) ==
    IF ~cache_connected \/ cacheFault THEN cache ELSE [cache EXCEPT ![k] = value]

\* ---------------------------------------------------------------- handlers
IdleReq == [pc |-> "idle", user |-> 0, key |-> ""]

NoEvent == [op |-> "none"]

InitService ==
    /\ svc = "new"
    /\ is_connected = FALSE
    /\ cache_connected = FALSE
    /\ today = 1
    /\ store = <<>>
    /\ cache = [k \in CacheKeys |-> "none"]
    /\ req = [r \in Slots |-> IdleReq]
    /\ calls = 0
    /\ last = NoEvent

\* no agent call is being reconciled
NoCall ==
    [pc |-> "none", kind |-> "none", raw |-> <<>>, members |-> <<>>,
     original |-> <<>>, out |-> [raised |-> "none", value |-> <<>>]]

Init == InitService /\ rc = NoCall

\* startup_event: QuotaManager.initialize and CacheManager.initialize; each
\* connects when its ping succeeds and stays disconnected when it raises
Initialize ==
    /\ svc = "new"
    /\ svc' = "up"
    /\ \E qok \in BOOLEAN, cok \in BOOLEAN :
         /\ is_connected' = qok
         /\ cache_connected' = cok
    /\ UNCHANGED <<today, store, cache, req, calls, last, rc>>

\* shutdown_event, once the requests in flight have drained:
\* CacheManager.close and QuotaManager.close
Close ==
    /\ svc = "up"
    /\ \A r \in Slots : req[r].pc = "idle"
    /\ svc' = "closed"
    /\ is_connected' = FALSE
    /\ cache_connected' = FALSE
    /\ UNCHANGED <<today, store, cache, req, calls, last, rc>>

\* a handler that would look into the cache before it asks check_quota
EarlyAnswerCacheFirst(allowed, cached_result) ==
    IF cached_result # "none" THEN "200_cached"
    ELSE IF ~allowed THEN "429" ELSE "none"

\* a handler that would not look at the answer of check_quota
EarlyAnswerUnchecked(allowed, cached_result) ==
    IF cached_result # "none" THEN "200_cached" ELSE "none"

\* what the handler answers before the model call: 429 when check_quota
\* denies, the cached result on a hit, nothing yet otherwise
EarlyAnswer(allowed, cached_result) ==
    IF ~allowed THEN "429"
    ELSE IF cached_result # "none" THEN "200_cached" ELSE "none"

\* optimize_text / classify_content up to the model call: check_quota (429 when
\* it denies), then the cache lookup (answered from the cache on a hit)
Admit(r) ==
    /\ svc = "up"
    /\ req[r].pc = "idle"
    /\ \A q \in Slots : q < r => req[q].pc # "idle"
    /\ calls < MaxCalls
    /\ calls' = calls + 1
    /\ \E u \in Users, k \in CacheKeys, readFault \in BOOLEAN, cacheFault \in BOOLEAN :
         /\ readFault => is_connected
         /\ cacheFault => (cache_connected /\ cache[k] # "none")
         /\ LET quota_info == GetQuotaInfo(store, is_connected, today, u, readFault)
                allowed == CheckQuota(quota_info)
                cached_result == CacheGet(k, cacheFault)
                resp == EarlyAnswer(allowed, cached_result)
            IN  /\ req' = [req EXCEPT ![r] = IF resp = "none"
                                             THEN [pc |-> "model", user |-> u, key |-> k]
                                             ELSE IdleReq]
                /\ last' = [op |-> "check", user |-> u, resp |-> resp, ret |-> allowed,
                            readFault |-> readFault]
    /\ UNCHANGED <<svc, is_connected, cache_connected, today, store, cache, rc>>

\* TextOptimizerAgent.optimize_text / ContentClassifierAgent.classify_content as
\* the handler sees it: a validated result, or the fallback result (error set)
\* when the model call raised
AgentResult(modelRaised) == IF modelRaised THEN "fallback" ELSE "ok"

\* optimize_text / classify_content from the model call's return to the
\* response: cache the result, use_quota(user, 1), answer 200
Complete(r) ==
    /\ svc = "up"
    /\ req[r].pc = "model"
    /\ \E modelRaised \in BOOLEAN, cacheFault \in BOOLEAN, fault \in UseQuotaFaults :
         /\ cacheFault => cache_connected
         /\ (fault # "none") => is_connected
         /\ LET u == req[r].user
                result == AgentResult(modelRaised)
                out == UseQuota(store, is_connected, today, u, 1, fault)
            IN  /\ cache' = CacheSet(req[r].key, result, cacheFault)
                /\ store' = out.store
                /\ last' = [op |-> "complete", user |-> u, resp |-> "200", ret |-> out.ret,
                            result |-> result, count |-> 1]
    /\ req' = [req EXCEPT ![r] = IdleReq]
    /\ UNCHANGED <<svc, is_connected, cache_connected, today, calls, rc>>

\* an abort path that bills the request all the same
AbortStoreCharging(r) == UseQuota(store, is_connected, today, req[r].user, 1, "none").store

\* the handlers' except branches (HTTPException re-raised, anything else
\* logged and answered 500) and a cancellation unwinding them: none of them
\* calls the quota manager, the counter store is left as it is
AbortStore(r) == store

\* a request abandoned while it waits for the model call (the client went away
\* and the handler task was cancelled)
Abandon(r) ==
    /\ svc = "up"
    /\ req[r].pc = "model"
    /\ store' = AbortStore(r)
    /\ last' = [op |-> "abandon", user |-> req[r].user, resp |-> "cancelled"]
    /\ req' = [req EXCEPT ![r] = IdleReq]
    /\ UNCHANGED <<svc, is_connected, cache_connected, today, cache, calls, rc>>

\* a direct call of QuotaManager.use_quota(user, operation, count)
UseQuotaCall ==
    /\ svc = "up"
    /\ calls < MaxCalls
    /\ \E u \in Users, n \in 1..MaxAmount, fault \in UseQuotaFaults :
         /\ (fault # "none") => is_connected
         /\ LET out == UseQuota(store, is_connected, today, u, n, fault)
            IN  /\ store' = out.store
                /\ last' = [op |-> "use_quota", user |-> u, ret |-> out.ret, count |-> n]
    /\ calls' = calls + 1
    /\ UNCHANGED <<svc, is_connected, cache_connected, today, cache, req, rc>>

\* QuotaManager.use_quota(user, operation, count) called on the manager after
\* close: is_connected is False, the store is still there
UseQuotaAfterClose ==
    /\ svc = "closed"
    /\ calls < MaxCalls
    /\ \E u \in Users, n \in 1..MaxAmount :
         LET out == UseQuota(store, is_connected, today, u, n, "none")
         IN  /\ store' = out.store
             /\ last' = [op |-> "use_quota", user |-> u, ret |-> out.ret, count |-> n]
    /\ calls' = calls + 1
    /\ UNCHANGED <<svc, is_connected, cache_connected, today, cache, req, rc>>

\* a direct call of QuotaManager.check_quota(user, operation), before or
\* after close
CheckQuotaCall(u, readFault) ==
    /\ svc \in {"up", "closed"}
    /\ readFault => is_connected
    /\ store' = GetQuotaInfoStore(store, is_connected, today, u)
    /\ last' = [op |-> "check_quota", user |-> u,
                ret |-> CheckQuota(GetQuotaInfo(store, is_connected, today, u, readFault))]
    /\ UNCHANGED <<svc, is_connected, cache_connected, today, cache, req, calls, rc>>

\* GET /api/v1/ai/quota: QuotaManager.get_quota_info(user)
GetQuotaInfoCall(u, readFault) ==
    /\ svc \in {"up", "closed"}
    /\ readFault => is_connected
    /\ store' = GetQuotaInfoStore(store, is_connected, today, u)
    /\ last' = [op |-> "get_quota_info", user |-> u,
                info |-> GetQuotaInfo(store, is_connected, today, u, readFault)]
    /\ UNCHANGED <<svc, is_connected, cache_connected, today, cache, req, calls, rc>>

\* a call of QuotaManager.reset_user_quota(user, quota_type)
ResetCall(u, quota_type, fault) ==
    /\ svc \in {"up", "closed"}
    /\ (fault # "none") => is_connected
    /\ (fault = "delete_daily") => quota_type \in {"daily", "all"}
    /\ (fault = "delete_monthly") => quota_type \in {"monthly", "all"}
    /\ LET out == ResetUserQuota(store, is_connected, today, u, quota_type, fault)
       IN  /\ store' = out.store
           /\ last' = [op |-> "reset", user |-> u, quota_type |-> quota_type,
                       ret |-> out.ret,
                       daily_before |-> StoreGet(store, DailyKey(u, today)),
                       monthly_before |-> StoreGet(store, MonthlyKey(u, today))]
    /\ UNCHANGED <<svc, is_connected, cache_connected, today, cache, req, calls, rc>>

\* ------------------------------------------------------------ environment
\* midnight: the date, and with it every window key derived from now on, changes
Tick ==
    /\ today < MaxDay
    /\ today' = today + 1
    /\ last' = NoEvent
    /\ UNCHANGED <<svc, is_connected, cache_connected, store, cache, req, calls, rc>>

\* a cached response outlives ai_cache_ttl
CacheExpire ==
    /\ \E k \in CacheKeys : cache[k] # "none" /\ cache' = [cache EXCEPT ![k] = "none"]
    /\ last' = NoEvent
    /\ UNCHANGED <<svc, is_connected, cache_connected, today, store, req, calls, rc>>

Next ==
    \/ Initialize
    \/ Close
    \/ \E r \in Slots : Admit(r)
    \/ \E r \in Slots : Complete(r)
    \/ \E r \in Slots : Abandon(r)
    \/ UseQuotaCall
    \/ Tick
    \/ CacheExpire

Spec == Init /\ [][Next]_vars

\* the service driven by AI requests alone: no direct call of the quota manager
NextRequests ==
    \/ Initialize
    \/ Close
    \/ \E r \in Slots : Admit(r)
    \/ \E r \in Slots : Complete(r)
    \/ \E r \in Slots : Abandon(r)
    \/ Tick
    \/ CacheExpire

SpecRequests == Init /\ [][NextRequests]_vars

\* the quota manager driven through its own methods
NextManager ==
    \/ Initialize
    \/ Close
    \/ UseQuotaCall
    \/ UseQuotaAfterClose
    \/ \E u \in Users, readFault \in BOOLEAN : CheckQuotaCall(u, readFault)
    \/ \E u \in Users, readFault \in BOOLEAN : GetQuotaInfoCall(u, readFault)
    \/ \E u \in Users, quota_type \in ResetTypes, fault \in ResetFaults :
          ResetCall(u, quota_type, fault)
    \/ Tick

SpecManager == Init /\ [][NextManager]_vars

\* ============================================================ reconciler
\* The agents' reading of the raw model output: _parse_*_result followed by
\* _validate_*_result, in TextOptimizerAgent and ContentClassifierAgent.

\* ---------------------------------------------------------------- bounds
MaxRawLen == 4
MaxOrigLen == 4

\* ---------------------------------------------------------- python values
\* a value of the decoded JSON or of a result dict, tagged with its type;
\* numbers that are confidences are in tenths, a str is a sequence of fragments
Str(s) == [t |-> "str", s |-> s]
Num(n) == [t |-> "num", n |-> n]
IntV(i) == [t |-> "int", i |-> i]
List(l) == [t |-> "list", l |-> l]
Dict(d) == [t |-> "dict", d |-> d]
Bool(b) == [t |-> "bool", b |-> b]
Null == [t |-> "null"]

\* a key that the dict does not have
Absent == [t |-> "absent"]
EmptyDict == <<>>

\* the dict holding the keys of f whose value is not Absent
MkDict(f) == [k \in {x \in DOMAIN f : f[x] # Absent} |-> f[k]]

\* result.get(key, default)
DictGet(dict, key, default) == IF key \in DOMAIN dict THEN dict[key] ELSE default

\* result[key] = value
DictSet(dict, key, value) ==
    [k \in DOMAIN dict \cup {key} |-> IF k = key THEN value ELSE dict[k]]

\* bool(value), as `not value` reads it
Truthy(v) ==
    CASE v.t = "str" -> v.s # <<>>
      [] v.t = "num" -> v.n # 0
      [] v.t = "int" -> v.i # 0
      [] v.t = "list" -> v.l # <<>>
      [] v.t = "dict" -> DOMAIN v.d # {}
      [] v.t = "bool" -> v.b
      [] OTHER -> FALSE

\* what a function call gives: its return value, or the exception it raised
Return(value) == [raised |-> "none", value |-> value]
Raise(exc) == [raised |-> exc, value |-> EmptyDict]

\* ------------------------------------------------------ the raw model text
\* The text is a sequence of fragments:
\*   "F"    the fence marker ```json          "E"   the fence marker ```
\*   "{"    an opening brace                  "}"   a closing brace
\*   "O"    the text of a JSON object, braces included and none inside; it
\*          decodes to rc.members
\*   "D"    the text of a JSON object that nests deeper than the decoder's
\*          recursion limit, such as {"a": [[[[ ... }
\*   "nl"   a newline                         "w"   a word with none of these
\*   "cue"  a word holding 优化后 or 修改后
\*   "ccue" a fragment  分类: name  of one line
Tokens == {"F", "E", "{", "}", "O", "D", "nl", "w", "cue", "ccue"}

\* One more fragment, which the model's answers hold among words only:
\*   "Q"    the text of a JSON object like "O" one of whose strings quotes a
\*          fenced block, such as {"optimized_text": "Use ```json {x} ```", ...};
\*          it decodes to rc.members like "O"
\* and the block its string quotes, which is no JSON
NestedBlock == <<"{", "w", "}">>
NestedFenceTexts == {<<"Q">>, <<"w", "Q">>, <<"w", "nl", "Q", "w">>}

SeqsUpTo(S, n) == UNION {[1..k -> S] : k \in 0..n}

Min(S) == CHOOSE x \in S : \A y \in S : x <= y
MaxOf(S) == CHOOSE x \in S : \A y \in S : x >= y

\* the fragment starts with "{" / ends with "}"
BraceOpen(tok) == tok \in {"{", "O", "D", "Q"}
BraceClose(tok) == tok \in {"}", "O", "D", "Q"}

\* \s* matches t[i..j]
AllSpace(t, i, j) == \A k \in i..j : t[k] = "nl"

NoMatch == [found |-> FALSE, group |-> <<>>]

\* where re.search(r'```json\s*(\{.*?\})\s*```', t, re.DOTALL) can match:
\* <<i, a, j>> with the opening fence at i, group 1 from a to j, and a fence
\* marker (``` also starts ```json) after it
FencedMatches(t) ==
    {m \in (1..Len(t)) \X (1..Len(t)) \X (1..Len(t)) :
        /\ t[m[1]] = "F"
        /\ m[1] < m[2]
        /\ AllSpace(t, m[1] + 1, m[2] - 1)
        /\ BraceOpen(t[m[2]])
        /\ m[2] <= m[3]
        /\ BraceClose(t[m[3]])
        /\ (m[2] = m[3] => t[m[2]] \in {"O", "D"})
        /\ \E b \in (m[3] + 1)..Len(t) :
              AllSpace(t, m[3] + 1, b - 1) /\ t[b] \in {"E", "F"}}

\* the match among M that re.search returns: the leftmost start, and from it
\* the shortest group (.*? is not greedy)
FencedPick(t, M) ==
    IF M = {} THEN NoMatch
    ELSE LET i == Min({m[1] : m \in M})
         IN  [found |-> TRUE,
              group |-> SubSeq(t, Min({m[2] : m \in {x \in M : x[1] = i}}),
                                  Min({m[3] : m \in {x \in M : x[1] = i}}))]

\* the fenced block that a "Q" quotes matches the pattern as well: the search
\* does not know that it is inside a JSON string
QuotedFence(t, fenced) ==
    IF fenced.found THEN fenced
    ELSE IF \E k \in 1..Len(t) : t[k] = "Q"
         THEN [found |-> TRUE, group |-> NestedBlock]
    ELSE NoMatch

\* re.search(r'```json\s*(\{.*?\})\s*```', t, re.DOTALL), group 1
FencedSearch(t) == QuotedFence(t, FencedPick(t, FencedMatches(t)))

\* where a loose match can start, and where one that starts at a can end
LooseOpens(t) == {k \in 1..Len(t) : BraceOpen(t[k])}
LooseCloses(t, a) ==
    {k \in a..Len(t) : BraceClose(t[k]) /\ (k = a => t[k] \in {"O", "D", "Q"})}

\* the greedy match from a: up to the last "}"
LoosePick(t, a, closes) ==
    IF closes = {} THEN NoMatch
    ELSE [found |-> TRUE, group |-> SubSeq(t, a, MaxOf(closes))]
LooseFrom(t, a) == LoosePick(t, a, LooseCloses(t, a))

\* re.search(r'\{.*\}', t, re.DOTALL): from the first "{" to the last "}"
LooseSearch(t) ==
    IF LooseOpens(t) = {} THEN NoMatch ELSE LooseFrom(t, Min(LooseOpens(t)))

\* json.loads(json_str): the object of "O", the empty object of "{" "}" with
\* white space between, RecursionError on "D" (the scanner recurses into the
\* nested values before it can find anything wrong after them), and
\* JSONDecodeError on every other text
JsonLoads(json_str, members) ==
    IF json_str[1] = "D" THEN Raise("RecursionError")
    ELSE IF json_str \in {<<"O">>, <<"Q">>} THEN Return(members)
    ELSE IF /\ Len(json_str) >= 2
            /\ json_str[1] = "{"
            /\ json_str[Len(json_str)] = "}"
            /\ AllSpace(json_str, 2, Len(json_str) - 1)
         THEN Return(EmptyDict)
    ELSE Raise("JSONDecodeError")

\* str.strip(): the white space at both ends removed
RECURSIVE LStrip(_)
LStrip(s) == IF s # <<>> /\ Head(s) = "nl" THEN LStrip(Tail(s)) ELSE s
RECURSIVE RStrip(_)
RStrip(s) ==
    IF s # <<>> /\ s[Len(s)] = "nl" THEN RStrip(SubSeq(s, 1, Len(s) - 1)) ELSE s
Strip(s) == RStrip(LStrip(s))

\* str.split('\n'): the lines of s, at least one
RECURSIVE SplitAt(_, _)
SplitAt(s, nls) ==
    IF nls = {} THEN <<s>>
    ELSE <<SubSeq(s, 1, Min(nls) - 1)>>
         \o SplitAt(SubSeq(s, Min(nls) + 1, Len(s)),
                    {k - Min(nls) : k \in nls \ {Min(nls)}})
Split(s) == SplitAt(s, {k \in 1..Len(s) : s[k] = "nl"})

\* the word is in the line
Contains(line, word) == \E k \in 1..Len(line) : line[k] = word

\* -------------------------------------------------- python number helpers
\* a value that < and > accept next to a float
IsNumber(v) == v.t = "num"

\* min(a, b) and max(a, b) on numbers: the first argument unless the second
\* one is smaller / larger
PyMin(a, b) == IF b.n < a.n THEN b ELSE a
PyMax(a, b) == IF b.n > a.n THEN b ELSE a

\* len(value) is defined
HasLen(v) == v.t \in {"str", "list", "dict"}
PyLen(v) ==
    CASE v.t = "str" -> Len(v.s)
      [] v.t = "list" -> Len(v.l)
      [] v.t = "dict" -> Cardinality(DOMAIN v.d)

\* the exception classes that `except (json.JSONDecodeError, ValueError)`
\* and `except Exception` catch
ParseCaught == {"JSONDecodeError", "ValueError"}
\* a handler that would catch the errors of the parse and of the validation
\* only, against which the handling of a failed model call is checked
InternalErrorsOnly ==
    {"JSONDecodeError", "ValueError", "TypeError", "AttributeError", "RecursionError"}
ExceptionCaught ==
    {"JSONDecodeError", "ValueError", "TypeError", "AttributeError", "RecursionError",
     "TimeoutError", "ConnectionError"}

\* ------------------------------------------------------------ parse
RequiredOptimization == {"optimized_text", "suggestions", "confidence"}
RequiredClassification == {"suggestions", "detected_topics", "key_phrases", "content_type"}

\* an exception of the classes in caught is handled by returning fallback
Except(body, caught, fallback) ==
    IF body.raised \in caught THEN Return(fallback) ELSE body

\* the match whose text is decoded: the fenced one if there is one
PickMatch(fenced, loose) == IF fenced.found THEN fenced ELSE loose

\* ValueError when a required field is not in the decoded object
CheckRequired(required, result) ==
    IF result.raised # "none" THEN result
    ELSE IF ~(required \subseteq DOMAIN result.value) THEN Raise("ValueError")
    ELSE result

\* ValueError when neither search matched, else json.loads of the match and
\* the test of the required fields
LoadMatch(required, json_match, members) ==
    IF ~json_match.found THEN Raise("ValueError")
    ELSE CheckRequired(required, JsonLoads(json_match.group, members))

\* the try block of _parse_optimization_result / _parse_classification_result
ParseBody(required, result_text, members) ==
    LoadMatch(required,
              PickMatch(FencedSearch(result_text), LooseSearch(result_text)),
              members)

\* the text after the first cue line if there is such a line and one after
\* it, else the whole raw text
TextAfterCue(result_text, lines, cueLines) ==
    IF cueLines # {} /\ Min(cueLines) < Len(lines)
    THEN Strip(lines[Min(cueLines) + 1])
    ELSE result_text
CueLines(lines) == {i \in 1..Len(lines) : Contains(lines[i], "cue")}

\* an extraction that would keep a full confidence, against which the
\* confidence ceiling of the extraction is checked
ExtractFallbackConfident(result_text) ==
    [optimized_text |-> Str(TextAfterCue(result_text, Split(Strip(result_text)),
                                         CueLines(Split(Strip(result_text))))),
     suggestions |-> List(<<>>),
     confidence |-> Num(9),
     optimization_type |-> Str(<<"unknown">>),
     summary |-> Str(<<"format_error">>)]

\* TextOptimizerAgent._extract_fallback_result
ExtractFallbackOptimization(result_text) ==
    [optimized_text |-> Str(TextAfterCue(result_text, Split(Strip(result_text)),
                                         CueLines(Split(Strip(result_text))))),
     suggestions |-> List(<<>>),
     confidence |-> Num(5),
     optimization_type |-> Str(<<"unknown">>),
     summary |-> Str(<<"format_error">>)]

\* a suggestion dict
Suggestion(name, confidence, reasoning) ==
    Dict([category_name |-> Str(<<name>>), confidence |-> confidence,
          reasoning |-> Str(<<reasoning>>), is_existing |-> Bool(FALSE)])

\* one suggestion of confidence 0.5 for each line with a category cue, or
\* the sentinel suggestion of confidence 0.3
FallbackSuggestions(cueLines) ==
    IF cueLines # <<>>
    THEN List([i \in 1..Len(cueLines) |-> Suggestion("extracted", Num(5), "extracted")])
    ELSE List(<<Suggestion("other", Num(3), "unclassifiable")>>)

\* ContentClassifierAgent._extract_fallback_result; the raw text of the model
\* has no topic and no keyword cue, so these two lists get their defaults
ExtractFallbackClassification(result_text) ==
    [suggestions |-> FallbackSuggestions(
                        SelectSeq(Split(Strip(result_text)),
                                  LAMBDA line : Contains(line, "ccue"))),
     detected_topics |-> List(<<Str(<<"unknown_topic">>)>>),
     key_phrases |-> List(<<Str(<<"no_keywords">>)>>),
     content_type |-> Str(<<"other">>),
     summary |-> Str(<<"format_error">>)]

\* TextOptimizerAgent._parse_optimization_result
ParseOptimizationResult(result_text, members) ==
    Except(ParseBody(RequiredOptimization, result_text, members), ParseCaught,
           ExtractFallbackOptimization(result_text))

\* ContentClassifierAgent._parse_classification_result
ParseClassificationResult(result_text, members) ==
    Except(ParseBody(RequiredClassification, result_text, members), ParseCaught,
           ExtractFallbackClassification(result_text))

\* ------------------------------------------------------------ validate
\* TextOptimizerAgent._create_fallback_result
CreateFallbackOptimization(original_text, error) ==
    [optimized_text |-> Str(original_text),
     suggestions |-> List(<<>>),
     confidence |-> Num(0),
     optimization_type |-> Str(<<"error">>),
     summary |-> Str(<<"failed", error>>),
     error |-> Str(<<error>>),
     original_length |-> IntV(Len(original_text)),
     optimized_length |-> IntV(Len(original_text)),
     length_change |-> IntV(0)]

\* ContentClassifierAgent._create_fallback_result
CreateFallbackClassification(original_content, error) ==
    [suggestions |-> List(<<Suggestion("other", Num(0), error)>>),
     detected_topics |-> List(<<Str(<<"failed">>)>>),
     key_phrases |-> List(<<Str(<<"error">>)>>),
     content_type |-> Str(<<"other">>),
     summary |-> Str(<<"failed", error>>),
     error |-> Str(<<error>>),
     content_length |-> IntV(Len(original_content)),
     suggestions_count |-> IntV(1)]

\* The statements of a try block are operators from the result so far to
\* the result after the statement, or to the exception the statement raised;
\* a statement that follows a raise does not run.

\* not optimized_text or len(optimized_text.strip()) == 0
IsBlank(optimized_text) ==
    IF ~Truthy(optimized_text) THEN "yes"
    ELSE IF optimized_text.t # "str" THEN "AttributeError"
    ELSE IF Strip(optimized_text.s) = <<>> THEN "yes"
    ELSE "no"

\* the original text in the place of a blank optimized_text, confidence 0.1
SubstituteOriginal(original_text, result, blank) ==
    IF blank = "AttributeError" THEN Raise("AttributeError")
    ELSE IF blank = "yes"
    THEN Return(DictSet(DictSet(DictSet(result,
                    "optimized_text", Str(original_text)),
                    "confidence", Num(1)),
                    "summary", Str(<<"returned_original">>)))
    ELSE Return(result)

\* a band without its lower end
OutsideBandLongOnly(original_text, optimized_text) ==
    /\ original_text # <<>>
    /\ PyLen(optimized_text) > 3 * Len(original_text)

\* length_ratio > 3 or length_ratio < 0.3
OutsideBand(original_text, optimized_text) ==
    /\ original_text # <<>>
    /\ \/ PyLen(optimized_text) > 3 * Len(original_text)
       \/ 10 * PyLen(optimized_text) < 3 * Len(original_text)

\* result["confidence"] = min(confidence, 0.7)
CapConfidence(result, confidence) ==
    IF ~IsNumber(confidence) THEN Raise("TypeError")
    ELSE Return(DictSet(result, "confidence", PyMin(confidence, Num(7))))

\* the length check: the ratio of the lengths, and the cap of the confidence
\* when it is out of the band
LengthCheck(original_text, optimized_text, out) ==
    IF out.raised # "none" THEN out
    ELSE IF original_text # <<>> /\ ~HasLen(optimized_text) THEN Raise("TypeError")
    ELSE IF OutsideBand(original_text, optimized_text)
    THEN CapConfidence(out.value, DictGet(out.value, "confidence", Num(5)))
    ELSE out

\* suggestions that is absent or not a list becomes []
EnsureSuggestionList(out) ==
    IF out.raised # "none" THEN out
    ELSE IF "suggestions" \notin DOMAIN out.value \/ out.value["suggestions"].t # "list"
    THEN Return(DictSet(out.value, "suggestions", List(<<>>)))
    ELSE out

\* result["confidence"] = max(0.0, min(1.0, confidence))
Clamp(result, confidence) ==
    IF ~IsNumber(confidence) THEN Raise("TypeError")
    ELSE Return(DictSet(result, "confidence", PyMax(Num(0), PyMin(Num(10), confidence))))
ClampConfidence(out) ==
    IF out.raised # "none" THEN out
    ELSE Clamp(out.value, DictGet(out.value, "confidence", Num(5)))

\* original_length, optimized_length, length_change
AddLengths(original_text, optimized_text, out) ==
    IF out.raised # "none" THEN out
    ELSE IF ~HasLen(optimized_text) THEN Raise("TypeError")
    ELSE Return(DictSet(DictSet(DictSet(out.value,
                    "original_length", IntV(Len(original_text))),
                    "optimized_length", IntV(PyLen(optimized_text))),
                    "length_change", IntV(PyLen(optimized_text) - Len(original_text))))

\* the try block from the second statement on; optimized_text stays the
\* value read from the result by the first statement
ValidateOptimizationFrom(original_text, result, optimized_text) ==
    AddLengths(original_text, optimized_text,
        ClampConfidence(
            EnsureSuggestionList(
                LengthCheck(original_text, optimized_text,
                    SubstituteOriginal(original_text, result, IsBlank(optimized_text))))))

\* the try block of _validate_optimization_result
ValidateOptimizationBody(original_text, result) ==
    ValidateOptimizationFrom(original_text, result,
                             DictGet(result, "optimized_text", Str(<<>>)))

\* TextOptimizerAgent._validate_optimization_result
ValidateOptimizationResult(original_text, result) ==
    Except(ValidateOptimizationBody(original_text, result), ExceptionCaught,
           CreateFallbackOptimization(original_text,
               ValidateOptimizationBody(original_text, result).raised))

\* if key not in suggestion: suggestion[key] = value
SetDefault(dict, key, value) ==
    IF key \notin DOMAIN dict THEN DictSet(dict, key, value) ELSE dict

\* the confidence of a suggestion: 0.5 when absent, else clamped
SuggestionConfidence(dict) ==
    IF "confidence" \notin DOMAIN dict THEN DictSet(dict, "confidence", Num(5))
    ELSE DictSet(dict, "confidence", PyMax(Num(0), PyMin(Num(10), dict["confidence"])))

\* one turn of the loop over result["suggestions"]: TypeError on a suggestion
\* that is not a dict or whose confidence is not a number
ValidateSuggestion(suggestion) ==
    IF suggestion.t # "dict" THEN Raise("TypeError")
    ELSE IF "confidence" \in DOMAIN suggestion.d /\ ~IsNumber(suggestion.d["confidence"])
    THEN Raise("TypeError")
    ELSE Return(SetDefault(SetDefault(SetDefault(SuggestionConfidence(suggestion.d),
                    "category_name", Str(<<"other">>)),
                    "reasoning", Str(<<"no_reason">>)),
                    "is_existing", Bool(FALSE)))

\* suggestions that is absent or empty becomes the sentinel suggestion
EnsureSuggestions(result) ==
    IF "suggestions" \notin DOMAIN result \/ ~Truthy(result["suggestions"])
    THEN Return(DictSet(result, "suggestions",
                        List(<<Suggestion("other", Num(3), "no_suggestion")>>)))
    ELSE Return(result)

\* the result with the suggestions the turns of the loop left, or TypeError
\* if a turn raised
AfterLoop(result, turns) ==
    IF \E i \in 1..Len(turns) : turns[i].raised # "none" THEN Raise("TypeError")
    ELSE Return(DictSet(result, "suggestions",
                        List([i \in 1..Len(turns) |-> Dict(turns[i].value)])))

\* for suggestion in result["suggestions"]: TypeError when it is not a list
SuggestionLoop(out) ==
    IF out.raised # "none" THEN out
    ELSE IF out.value["suggestions"].t # "list" THEN Raise("TypeError")
    ELSE AfterLoop(out.value,
                   [i \in 1..Len(out.value["suggestions"].l) |->
                       ValidateSuggestion(out.value["suggestions"].l[i])])

\* a key that is absent or whose value is empty gets the default
EnsureNonEmpty(out, key, default) ==
    IF out.raised # "none" THEN out
    ELSE IF key \notin DOMAIN out.value \/ ~Truthy(out.value[key])
    THEN Return(DictSet(out.value, key, default))
    ELSE out

\* content_type gets its default when absent
EnsureContentType(out) ==
    IF out.raised # "none" THEN out
    ELSE Return(SetDefault(out.value, "content_type", Str(<<"other">>)))

\* content_length, suggestions_count
AddCounts(original_content, out) ==
    IF out.raised # "none" THEN out
    ELSE Return(DictSet(DictSet(out.value,
                    "content_length", IntV(Len(original_content))),
                    "suggestions_count", IntV(Len(out.value["suggestions"].l))))

\* the try block of _validate_classification_result
ValidateClassificationBody(original_content, result) ==
    AddCounts(original_content,
        EnsureContentType(
            EnsureNonEmpty(
                EnsureNonEmpty(
                    SuggestionLoop(EnsureSuggestions(result)),
                    "detected_topics", List(<<Str(<<"unknown_topic">>)>>)),
                "key_phrases", List(<<Str(<<"no_keywords">>)>>))))

\* ContentClassifierAgent._validate_classification_result
ValidateClassificationResult(original_content, result) ==
    Except(ValidateClassificationBody(original_content, result), ExceptionCaught,
           CreateFallbackClassification(original_content,
               ValidateClassificationBody(original_content, result).raised))

\* ------------------------------------------------ the inputs of the agents
Kinds == {"optimize", "classify"}

\* n words
Words(n) == [k \in 1..n |-> "w"]

\* the text submitted for optimization or classification
Originals == {Words(0), Words(1), Words(MaxOrigLen)}

\* the values a model may put under the keys of its JSON object
TextValues ==
    {Absent, Null, Num(0), Num(5), List(<<>>), List(<<Str(<<"w">>)>>),
     Str(<<>>), Str(<<"nl">>), Str(<<"w">>), Str(Words(MaxOrigLen))}
ConfidenceValues ==
    {Absent, Null, Str(<<"w">>), Num(-5), Num(0), Num(5), Num(9), Num(10), Num(15)}
ListValues == {Absent, Null, Str(<<"w">>), List(<<>>), List(<<Str(<<"w">>)>>)}
SuggestionValues ==
    {Absent, Null, Num(5), Str(<<"w">>), List(<<>>), List(<<Str(<<"w">>)>>),
     List(<<Dict(EmptyDict)>>)}
    \cup {List(<<Dict(MkDict([category_name |-> Str(<<"w">>), confidence |-> c]))>>) :
             c \in ConfidenceValues}

\* the JSON objects of a text-optimization answer and of a classification answer
OptimizationMembers ==
    {MkDict([optimized_text |-> a, suggestions |-> b, confidence |-> c]) :
        a \in TextValues, b \in ListValues, c \in ConfidenceValues}
ClassificationMembers ==
    {MkDict([suggestions |-> a, detected_topics |-> b, key_phrases |-> c,
             content_type |-> d]) :
        a \in SuggestionValues, b \in ListValues,
        c \in {Absent, List(<<Str(<<"w">>)>>)}, d \in {Absent, Str(<<"w">>)}}
MembersOf(kind) ==
    IF kind = "optimize" THEN OptimizationMembers ELSE ClassificationMembers

\* an answer with every required field, well typed
GoodMembers(kind) ==
    IF kind = "optimize"
    THEN [optimized_text |-> Str(<<"w">>), suggestions |-> List(<<>>),
          confidence |-> Num(9)]
    ELSE [suggestions |-> List(<<Dict([category_name |-> Str(<<"w">>),
                                       confidence |-> Num(9)])>>),
          detected_topics |-> List(<<Str(<<"w">>)>>),
          key_phrases |-> List(<<Str(<<"w">>)>>),
          content_type |-> Str(<<"w">>)]

\* the raw texts that carry one JSON object: bare, fenced, after a word
ObjectTexts == {<<"O">>, <<"F", "O", "E">>, <<"w", "O">>}

\* what the model call raises when the upstream fails: a timeout of the HTTP
\* client, a transport error
UpstreamErrors == {"TimeoutError", "ConnectionError"}

\* the agent method called with the text original, waiting for the model
AgentCall(kind, original) ==
    [pc |-> "model", kind |-> kind, raw |-> <<>>, members |-> EmptyDict,
     original |-> original, out |-> Return(EmptyDict)]

\* --------------------------------------------------- the agent, step by step
\* optimize_text / classify_content of the agents are called with a text
InitAgent ==
    /\ InitService
    /\ \E kind \in Kinds, original \in Originals : rc = AgentCall(kind, original)

\* await self.assistant.run(task=prompt) returns the model's answer: every
\* raw text around a good object, and every object in the texts that carry one
ModelAnswers ==
    /\ rc.pc = "model"
    /\ \/ /\ Len(rc.original) <= 1
          /\ \E raw \in SeqsUpTo(Tokens, MaxRawLen) :
                rc' = [rc EXCEPT !.pc = "call", !.raw = raw,
                                 !.members = GoodMembers(rc.kind)]
       \/ \E raw \in ObjectTexts, members \in MembersOf(rc.kind) :
             rc' = [rc EXCEPT !.pc = "call", !.raw = raw, !.members = members]
       \/ \E raw \in NestedFenceTexts :
             rc' = [rc EXCEPT !.pc = "call", !.raw = raw,
                              !.members = GoodMembers(rc.kind)]
    /\ UNCHANGED qvars

\* await self.assistant.run(task=prompt) raises
ModelRaises ==
    /\ rc.pc = "model"
    /\ \E exc \in UpstreamErrors : rc' = [rc EXCEPT !.pc = "raised", !.out = Raise(exc)]
    /\ UNCHANGED qvars

\* the call after a step that gave out: at pc if it returned, at "raised" if
\* it raised
After(pc, out) ==
    [rc EXCEPT !.pc = IF out.raised = "none" THEN pc ELSE "raised", !.out = out]

\* self._parse_optimization_result(...) / self._parse_classification_result(...)
ParseStep ==
    /\ rc.pc = "call"
    /\ rc' = After("parsed", IF rc.kind = "optimize"
                              THEN ParseOptimizationResult(rc.raw, rc.members)
                              ELSE ParseClassificationResult(rc.raw, rc.members))
    /\ UNCHANGED qvars

\* self._validate_optimization_result(...) / self._validate_classification_result(...)
ValidateStep ==
    /\ rc.pc = "parsed"
    /\ rc' = After("validated",
                   IF rc.kind = "optimize"
                   THEN ValidateOptimizationResult(rc.original, rc.out.value)
                   ELSE ValidateClassificationResult(rc.original, rc.out.value))
    /\ UNCHANGED qvars

\* return validated_result
ReturnStep ==
    /\ rc.pc = "validated"
    /\ rc' = [rc EXCEPT !.pc = "returned"]
    /\ UNCHANGED qvars

\* except Exception of the agent method: return self._create_fallback_result(...)
ExceptStep ==
    /\ rc.pc = "raised"
    /\ rc.out.raised \in ExceptionCaught
    /\ rc' = [rc EXCEPT !.pc = "returned",
                        !.out = Return(IF rc.kind = "optimize"
                                       THEN CreateFallbackOptimization(rc.original, rc.out.raised)
                                       ELSE CreateFallbackClassification(rc.original, rc.out.raised))]
    /\ UNCHANGED qvars

NextAgent ==
    \/ ModelAnswers
    \/ ModelRaises
    \/ ParseStep
    \/ ValidateStep
    \/ ReturnStep
    \/ ExceptStep

SpecAgent == InitAgent /\ [][NextAgent]_vars

\* The statements of the agent method after the model call are plain
\* synchronous code and run to their end once they can.  The model call is
\* `await self.assistant.run(task=prompt)`: the client is built without a
\* timeout, ai_request_timeout is read nowhere and no wait_for wraps the
\* await, so nothing in the program makes the call answer or raise.
AgentRuns == ParseStep \/ ValidateStep \/ ReturnStep \/ ExceptStep
SpecAgentLive == InitAgent /\ [][NextAgent]_vars /\ WF_vars(AgentRuns)

\* ======================================================= AutoGenAIService
\* The second AI path: AutoGenAIService.optimize_text / classify_content with
\* _parse_*_response and the simulation it falls back on.  The confidences
\* of this service have two decimals: Pct(c) is c hundredths.
Pct(c) == [t |-> "num", c |-> c]
ToPct(v) == IF v.t = "num" THEN Pct(10 * v.n) ELSE v

\* the suggestions of a decoded object keep what the model put in them
ToPctList(v) ==
    IF v.t # "list" THEN v
    ELSE List([i \in 1..Len(v.l) |->
                 IF v.l[i].t = "dict" /\ "confidence" \in DOMAIN v.l[i].d
                 THEN Dict(DictSet(v.l[i].d, "confidence", ToPct(v.l[i].d["confidence"])))
                 ELSE v.l[i]])

\* the texts handed to the service: "weak" is one of the four expressions the
\* simulation replaces, "tech" and "study" are keywords of its two categories
AutoGenTexts == {<<"w">>, <<"weak">>, <<"w", "weak">>, <<"tech">>, <<"study">>}
OptimizationTypes == {"all", "grammar"}

\* the responses of the agent: an object alone, with text around it, not
\* closed, nested too deep, and plain words
AutoGenResponses ==
    {<<"O">>, <<"w", "O">>, <<"O", "nl">>, <<"{", "w">>, <<"{", "w", "}">>, <<"D">>, <<"w">>}

\* response.startswith('{') and response.endswith('}')
LooksLikeObject(response) ==
    /\ response # <<>>
    /\ BraceOpen(response[1])
    /\ BraceClose(response[Len(response)])

\* AutoGenAIService._parse_optimization_response: the result is built from
\* the decoded object, or from the response as a whole when it is no JSON
\* object; the bare except takes every exception of json.loads
ParseOptimizationResponse(response, original_text, members) ==
    IF LooksLikeObject(response) /\ JsonLoads(response, members).raised = "none"
    THEN [optimized_text |-> DictGet(JsonLoads(response, members).value,
                                     "optimized_text", Str(original_text)),
          suggestions |-> ToPctList(DictGet(JsonLoads(response, members).value,
                                            "suggestions", List(<<>>))),
          confidence |-> ToPct(DictGet(JsonLoads(response, members).value,
                                       "confidence", Num(8))),
          processing_time |-> Str(<<"elapsed">>),
          optimization_type |-> Str(<<"ai_powered">>)]
    ELSE [optimized_text |-> Str(response),
          suggestions |-> List(<<Dict([type |-> Str(<<"ai_optimization">>),
                                       confidence |-> Pct(85)])>>),
          confidence |-> Pct(85),
          processing_time |-> Str(<<"elapsed">>),
          optimization_type |-> Str(<<"ai_powered">>)]

\* AutoGenAIService._parse_classification_response
ParseClassificationResponse(response, content, members) ==
    IF LooksLikeObject(response) /\ JsonLoads(response, members).raised = "none"
    THEN [suggestions |-> ToPctList(DictGet(JsonLoads(response, members).value,
                                            "suggestions", List(<<>>))),
          detected_topics |-> DictGet(JsonLoads(response, members).value,
                                      "detected_topics", List(<<>>)),
          key_phrases |-> DictGet(JsonLoads(response, members).value,
                                  "key_phrases", List(<<>>)),
          content_type |-> DictGet(JsonLoads(response, members).value,
                                   "content_type", Str(<<"general">>)),
          processing_time |-> Str(<<"elapsed">>),
          content_length |-> IntV(Len(content))]
    ELSE [suggestions |-> List(<<Dict([category_name |-> Str(<<"ai_result">>),
                                       confidence |-> Pct(80),
                                       is_existing |-> Bool(FALSE)])>>),
          detected_topics |-> List(<<Str(<<"ai_analysis">>)>>),
          key_phrases |-> List(<<Str(<<"analysis">>), Str(<<"autogen">>)>>),
          content_type |-> Str(<<"ai_analyzed">>),
          processing_time |-> Str(<<"elapsed">>),
          content_length |-> IntV(Len(content))]

\* AutoGenAIService._simulate_text_optimization: the listed expressions
\* replaced, one suggestion of confidence 0.9 for each that occurs, overall
\* confidence 0.85 with suggestions and 0.5 without
SimulateTextOptimization(text, optimization_type) ==
    [optimized_text |->
         Str([k \in 1..Len(text) |-> IF text[k] = "weak" THEN "better" ELSE text[k]]),
     suggestions |->
         IF Contains(text, "weak")
         THEN List(<<Dict([type |-> Str(<<"expression">>), confidence |-> Pct(90)])>>)
         ELSE List(<<>>),
     confidence |-> IF Contains(text, "weak") THEN Pct(85) ELSE Pct(50),
     processing_time |-> Pct(50),
     optimization_type |-> Str(<<optimization_type>>)]

\* one category of the simulation
SimulatedCategory(name, confidence, content) ==
    [suggestions |-> List(<<Dict([category_name |-> Str(<<name>>),
                                  confidence |-> confidence,
                                  is_existing |-> Bool(TRUE)])>>),
     detected_topics |-> List(<<Str(<<name>>)>>),
     key_phrases |-> List(<<Str(<<"keyword1">>), Str(<<"keyword2">>)>>),
     content_type |-> Str(<<"document">>),
     processing_time |-> Pct(30),
     content_length |-> IntV(Len(content))]

\* AutoGenAIService._simulate_content_classification
SimulateContentClassification(content) ==
    IF Contains(content, "tech") THEN SimulatedCategory("technical", Pct(90), content)
    ELSE IF Contains(content, "study") THEN SimulatedCategory("study_notes", Pct(80), content)
    ELSE SimulatedCategory("other", Pct(60), content)

Simulated(call) ==
    IF call.kind = "optimize"
    THEN SimulateTextOptimization(call.original, call.optimization_type)
    ELSE SimulateContentClassification(call.original)

\* a call of optimize_text / classify_content; client tells whether the model
\* client and the agent exist
InitAutoGen ==
    /\ InitService
    /\ \E kind \in Kinds, original \in AutoGenTexts,
          optimization_type \in OptimizationTypes, client \in BOOLEAN :
          rc = [pc |-> "start", kind |-> kind, original |-> original,
                optimization_type |-> optimization_type, client |-> client,
                raw |-> <<>>, members |-> EmptyDict, source |-> "none",
                out |-> Return(EmptyDict)]

\* if not self.model_client or the agent is missing: return the simulation
AutoGenSimulates ==
    /\ rc.pc = "start"
    /\ ~rc.client
    /\ rc' = [rc EXCEPT !.pc = "returned", !.source = "no_client",
                        !.out = Return(Simulated(rc))]
    /\ UNCHANGED qvars

\* the prompt is built and agent.on_messages awaited
AutoGenAsks ==
    /\ rc.pc = "start"
    /\ rc.client
    /\ rc' = [rc EXCEPT !.pc = "model"]
    /\ UNCHANGED qvars

\* the agent answers and the response is parsed
AutoGenAnswers ==
    /\ rc.pc = "model"
    /\ \E response \in AutoGenResponses, members \in MembersOf(rc.kind) :
          rc' = [rc EXCEPT !.pc = "returned", !.source = "model",
                           !.raw = response, !.members = members,
                           !.out = Return(IF rc.kind = "optimize"
                                          THEN ParseOptimizationResponse(response, rc.original, members)
                                          ELSE ParseClassificationResponse(response, rc.original, members))]
    /\ UNCHANGED qvars

\* the model call raises: except Exception returns the simulation
AutoGenFails ==
    /\ rc.pc = "model"
    /\ \E exc \in UpstreamErrors :
          rc' = [rc EXCEPT !.pc = "returned", !.source = "failure",
                           !.out = Return(Simulated(rc))]
    /\ UNCHANGED qvars

NextAutoGen ==
    \/ AutoGenSimulates
    \/ AutoGenAsks
    \/ AutoGenAnswers
    \/ AutoGenFails

SpecAutoGen == InitAutoGen /\ [][NextAutoGen]_vars

\* ============================================================ UserAIQuota
\* The quota record of the user service, with its limits and used counts as
\* numbers.  rc holds the record, the count and the answer of the last call.
MaxPlanLimit == 3
MaxRequestCount == 2
MaxRecordCalls == 3

\* UserAIQuota.can_use_ai with the daily limit as the only one (a variant)
CanUseAiDailyOnly(q, request_count) ==
    q.daily_used + request_count <= q.daily_limit

\* UserAIQuota.can_use_ai
CanUseAi(q, request_count) ==
    /\ q.daily_used + request_count <= q.daily_limit
    /\ q.monthly_used + request_count <= q.monthly_limit

\* UserAIQuota.use_quota: the record after the call and the value returned
UserAIQuotaUseQuota(q, request_count) ==
    IF CanUseAi(q, request_count)
    THEN [q EXCEPT !.daily_used = @ + request_count,
                   !.monthly_used = @ + request_count,
                   !.ret = TRUE, !.request_count = request_count,
                   !.calls = @ + 1]
    ELSE [q EXCEPT !.ret = FALSE, !.request_count = request_count,
                   !.calls = @ + 1]

\* a record whose used counts are within its limits
InitUserAIQuota ==
    /\ InitService
    /\ \E daily_limit \in 0..MaxPlanLimit, monthly_limit \in 0..MaxPlanLimit :
       \E daily_used \in 0..daily_limit, monthly_used \in 0..monthly_limit :
          rc = [daily_limit |-> daily_limit, monthly_limit |-> monthly_limit,
                daily_used |-> daily_used, monthly_used |-> monthly_used,
                ret |-> FALSE, request_count |-> 0, calls |-> 0]

\* one call of use_quota with a positive count
UserAIQuotaCall ==
    /\ rc.calls < MaxRecordCalls
    /\ \E request_count \in 1..MaxRequestCount :
          rc' = UserAIQuotaUseQuota(rc, request_count)
    /\ UNCHANGED qvars

SpecUserAIQuota == InitUserAIQuota /\ [][UserAIQuotaCall]_vars

\* ------------------------------------------------------------------ claims
\* the report get_quota_info gives for user u in the current state when its
\* reads succeed, and the counts in it
Report(u) == GetQuotaInfo(store, is_connected, today, u, FALSE)
DailyUsed(u) == Report(u).daily_used
MonthlyUsed(u) == Report(u).monthly_used

WithinLimits(u) ==
    /\ DailyUsed(u) <= plan[u].daily_limit
    /\ MonthlyUsed(u) <= plan[u].monthly_limit

Exhausted(u) ==
    \/ DailyUsed(u) >= plan[u].daily_limit
    \/ MonthlyUsed(u) >= plan[u].monthly_limit

\* this step is a handler finishing a request of user u (cache set, use_quota, 200)
CompleteStep(u) ==
    /\ last'.op = "complete"
    /\ last'.user = u
    /\ \E r \in Slots : req[r].pc = "model" /\ req[r].user = u /\ req'[r].pc = "idle"

\* this step is a direct use_quota call for user u
UseQuotaApiStep(u) ==
    /\ last'.op = "use_quota"
    /\ last'.user = u
    /\ calls' = calls + 1

\* this step is a handler running check_quota for a request of user u
CheckStep(u) ==
    /\ last'.op = "check"
    /\ last'.user = u
    /\ calls' = calls + 1

\* this step abandons a request of user u that had passed check_quota
AbandonStep(u) ==
    /\ last'.op = "abandon"
    /\ last'.user = u
    /\ \E r \in Slots : req[r].pc = "model" /\ req[r].user = u /\ req'[r].pc = "idle"

\* C1: requests that each run check_quota and then use_quota never take a
\* user's stored daily or monthly count above its limit: a request's commit
\* that starts within the limits ends within the limits.
C1_CeilingKept ==
    [][\A u \in Users : (CompleteStep(u) /\ WithinLimits(u)) => WithinLimits(u)']_vars

\* C2: when the current window's count already stands at the limit, check_quota
\* denies, and a use_quota call returns false and leaves both counts as they were.
C2_ExhaustedCommitRejected ==
    [][\A u \in Users :
          /\ (CheckStep(u) /\ Exhausted(u)) => last'.ret = FALSE
          /\ ((CompleteStep(u) \/ UseQuotaApiStep(u)) /\ Exhausted(u))
               => /\ last'.ret = FALSE
                  /\ DailyUsed(u)' = DailyUsed(u)
                  /\ MonthlyUsed(u)' = MonthlyUsed(u)]_vars

\* C3: a request that reaches its commit when no allowance is left (others that
\* passed check_quota alongside it used it up) gets commit = false and is not
\* answered as a success.
C3_ExcessNotAnswered ==
    [][\A u \in Users :
          (CompleteStep(u) /\ Exhausted(u)) => (last'.ret = FALSE /\ last'.resp # "200")]_vars

\* C4: check_quota returns false exactly when the user's current daily count is
\* at or above the daily limit or the monthly count at or above the monthly
\* limit, and true otherwise.
C4_CheckIffBelowLimits ==
    (svc = "up" /\ last.op = "check") => (last.ret = ~Exhausted(last.user))

\* C5: one use_quota call moves the daily and the monthly counter of its user
\* together: whatever the outcome of the call, both moved by the same amount.
C5_CountersMoveTogether ==
    [][\A u \in Users :
          (CompleteStep(u) \/ UseQuotaApiStep(u))
             => (DailyUsed(u)' - DailyUsed(u) = MonthlyUsed(u)' - MonthlyUsed(u))]_vars

\* C6: counts of a window that has ended are not counted.  Right after a day
\* boundary every user's daily count reads 0, and after a month boundary the
\* monthly count reads 0, whatever is stored under the old keys; a commit adds
\* its amount to what the current window's counter reads and to nothing else.
C6_Rollover ==
    [][\A u \in Users :
          /\ today' # today => DailyUsed(u)' = 0
          /\ MonthOf(today') # MonthOf(today) => MonthlyUsed(u)' = 0
          /\ (CompleteStep(u) \/ UseQuotaApiStep(u))
               => /\ DailyUsed(u)' <= DailyUsed(u) + last'.count
                  /\ MonthlyUsed(u)' <= MonthlyUsed(u) + last'.count]_vars

\* C6 witness: a check on a later day allowed a user whose counter of the day
\* before, still in the store, stands at the daily limit, and on a later month
\* although the month before stands at the monthly limit.
C6_Witness ==
    /\ is_connected
    /\ last.op = "check" /\ last.ret = TRUE
    /\ MonthOf(today) # MonthOf(today - 1)
    /\ StoreGet(store, DailyKey(last.user, today - 1)) >= plan[last.user].daily_limit
    /\ StoreGet(store, MonthlyKey(last.user, today - 1)) >= 1

\* C7: a request whose model call raised or timed out (its result is the
\* fallback result) leaves the user's daily and monthly counts unchanged.
C7_NoCommitOnUpstreamFailure ==
    [][\A u \in Users :
          (CompleteStep(u) /\ last'.result = "fallback")
             => (DailyUsed(u)' = DailyUsed(u) /\ MonthlyUsed(u)' = MonthlyUsed(u))]_vars

\* C8: a request that passed check_quota and is abandoned before use_quota ran
\* changes no counter: the whole store is as it was, so the allowance it did
\* not use is still there for the next request.
C8_AbandonConsumesNothing ==
    [][\A u \in Users : AbandonStep(u) => store' = store]_vars

\* C8 witness: a request was abandoned while its user had used part of the
\* daily allowance, and the rest is still available.
C8_Witness ==
    /\ is_connected
    /\ last.op = "abandon"
    /\ DailyUsed(last.user) >= 1
    /\ ~Exhausted(last.user)

\* C9: when a read of the counter store raises inside check_quota, the request
\* is treated as allowed.
C9_FailOpen ==
    (last.op = "check" /\ last.readFault) => last.ret = TRUE

\* ------------------------------------------------- claims on the reconciler
\* C10: parse followed by validation returns a result and never raises, for
\* every raw text: no call leaves the two functions with an exception (the
\* only exceptions of a call are those of the model call before them)
C10_ReconcileNeverRaises == rc.pc = "raised" => rc.out.raised \in UpstreamErrors

\* The cases the claim lists (no JSON, malformed JSON, a valid block, missing
\* and wrongly typed fields) do return a result: only a text whose JSON nests
\* beyond the decoder's recursion limit leaves the parse with an exception
ReconcileRaisesOnlyOnDeepNesting ==
    (rc.pc = "raised" /\ rc.out.raised \notin UpstreamErrors)
        => (rc.out.raised = "RecursionError" /\ Contains(rc.raw, "D"))

\* the agent method catches every exception the two functions raise and
\* hands back a fallback result
AgentCatchesAll == rc.pc = "raised" => rc.out.raised \in ExceptionCaught

\* the required fields of the call's kind
RequiredOf(kind) ==
    IF kind = "optimize" THEN RequiredOptimization ELSE RequiredClassification

\* the search found no block that json.loads could decode
Undecodable(json_match, members) ==
    \/ ~json_match.found
    \/ JsonLoads(json_match.group, members).raised = "JSONDecodeError"
NoDecodableBlock ==
    Undecodable(PickMatch(FencedSearch(rc.raw), LooseSearch(rc.raw)), rc.members)

\* no line of the raw text holds a cue
NoCueLine == CueLines(Split(Strip(rc.raw))) = {}

\* the parse of the call's raw text went to the line-oriented extraction
FellBack == ParseBody(RequiredOf(rc.kind), rc.raw, rc.members).raised \in ParseCaught

\* The result dicts have no field named degraded.  What tells a caller that
\* the result is not the model's own structured answer is the error field,
\* the optimization_type "unknown" of the optimizer's extraction, and the
\* format-error summary of the classifier's extraction.
MarkedDegraded(kind, result) ==
    \/ "error" \in DOMAIN result
    \/ kind = "optimize" /\ DictGet(result, "optimization_type", Null) = Str(<<"unknown">>)
    \/ kind = "classify" /\ DictGet(result, "summary", Null) = Str(<<"format_error">>)

\* every confidence of the result is a number from lo to hi (in tenths): the
\* overall one of an optimization, the one of each suggestion of a classification
ConfidencesWithin(kind, result, lo, hi) ==
    IF kind = "optimize"
    THEN /\ "confidence" \in DOMAIN result
         /\ result["confidence"].t = "num"
         /\ result["confidence"].n \in lo..hi
    ELSE /\ "suggestions" \in DOMAIN result
         /\ result["suggestions"].t = "list"
         /\ \A i \in 1..Len(result["suggestions"].l) :
               /\ result["suggestions"].l[i].t = "dict"
               /\ "confidence" \in DOMAIN result["suggestions"].l[i].d
               /\ result["suggestions"].l[i].d["confidence"].t = "num"
               /\ result["suggestions"].l[i].d["confidence"].n \in lo..hi

\* C11: a text optimization whose raw model text has no decodable block and no
\* cue line returns the original text as optimized_text, with a confidence of
\* at most 0.5, marked degraded.
C11_FullFallbackReturnsOriginal ==
    (/\ rc.pc = "validated"
     /\ rc.kind = "optimize"
     /\ rc.original # <<>>
     /\ NoDecodableBlock
     /\ NoCueLine)
        => /\ DictGet(rc.out.value, "optimized_text", Null) = Str(rc.original)
           /\ ConfidencesWithin("optimize", rc.out.value, 0, 5)
           /\ MarkedDegraded("optimize", rc.out.value)

\* what does hold in the case of C11: the confidence and the mark
FullFallbackLowConfidence ==
    (/\ rc.pc = "validated"
     /\ rc.kind = "optimize"
     /\ NoDecodableBlock
     /\ NoCueLine)
        => /\ ConfidencesWithin("optimize", rc.out.value, 0, 5)
           /\ MarkedDegraded("optimize", rc.out.value)

\* the raw text has no fence marker and is a JSON object after words
ObjectAfterWords(raw) ==
    /\ raw # <<>>
    /\ raw[Len(raw)] = "O"
    /\ \A k \in 1..(Len(raw) - 1) : raw[k] \in {"w", "nl"}

\* C12: a raw text without fence markers that holds, after leading text, the
\* object {"optimized_text": "hi", "confidence": 0.9} gives optimized_text
\* "hi", confidence 0.9, not degraded.
C12_LooseParseSuccess ==
    (/\ rc.pc = "validated"
     /\ rc.kind = "optimize"
     /\ rc.original # <<>>
     /\ ObjectAfterWords(rc.raw)
     /\ rc.members = [optimized_text |-> Str(<<"w">>), confidence |-> Num(9)])
        => /\ DictGet(rc.out.value, "optimized_text", Null) = Str(<<"w">>)
           /\ DictGet(rc.out.value, "confidence", Null) = Num(9)
           /\ ~MarkedDegraded("optimize", rc.out.value)

Revalidated ==
    IF rc.kind = "optimize"
    THEN ValidateOptimizationResult(rc.original, rc.out.value)
    ELSE ValidateClassificationResult(rc.original, rc.out.value)

\* C14: the validation run a second time on its own output, with the same
\* original text, returns that output unchanged in every field.
C14_ValidateIdempotent ==
    (rc.pc = "validated" /\ rc.original # <<>>) => Revalidated = Return(rc.out.value)

\* the validation substitutes the primary payload of this parsed result
Substitutes(kind, result) ==
    IF kind = "optimize"
    THEN IsBlank(DictGet(result, "optimized_text", Str(<<>>))) = "yes"
    ELSE "suggestions" \notin DOMAIN result \/ ~Truthy(result["suggestions"])

\* the primary payload of the result is there and not empty
PayloadNonEmpty(kind, result) ==
    IF kind = "optimize"
    THEN /\ "optimized_text" \in DOMAIN result
         /\ result["optimized_text"].t = "str"
         /\ result["optimized_text"].s # <<>>
    ELSE /\ "suggestions" \in DOMAIN result
         /\ result["suggestions"].t = "list"
         /\ result["suggestions"].l # <<>>

\* C15: a validated result without error has a non-empty primary payload, and
\* whenever the validation substituted the payload it set error.
C15_PayloadOrError ==
    [][(rc.pc = "parsed" /\ rc'.pc = "validated" /\ rc.original # <<>>)
          => /\ "error" \notin DOMAIN rc'.out.value
                  => PayloadNonEmpty(rc.kind, rc'.out.value)
             /\ Substitutes(rc.kind, rc.out.value)
                  => "error" \in DOMAIN rc'.out.value]_vars

\* what does hold in the case of C15: the payload of a result without error
PayloadNeverEmpty ==
    (rc.pc = "validated" /\ rc.original # <<>> /\ "error" \notin DOMAIN rc.out.value)
        => PayloadNonEmpty(rc.kind, rc.out.value)

\* C16: when the model call of optimize_text or classify_content raises a
\* timeout or a transport error, the agent method catches it and its next
\* step returns a result with error set and, for an optimization, the
\* original text as optimized_text; the exception does not reach the caller.
C16_UpstreamFailureSurfaced ==
    /\ []((rc.pc = "raised" /\ rc.out.raised \in UpstreamErrors)
              => rc.out.raised \in ExceptionCaught)
    /\ [][(rc.pc = "raised" /\ rc.out.raised \in UpstreamErrors)
              => /\ rc'.pc = "returned"
                 /\ rc'.out.raised = "none"
                 /\ "error" \in DOMAIN rc'.out.value
                 /\ rc.kind = "optimize"
                      => rc'.out.value["optimized_text"] = Str(rc.original)]_vars

\* C16 witness: an optimization of a non-empty text has returned the error
\* result of a model call that timed out
C16_Witness ==
    /\ rc.pc = "returned"
    /\ rc.kind = "optimize"
    /\ rc.original # <<>>
    /\ "error" \in DOMAIN rc.out.value
    /\ rc.out.value["error"] = Str(<<"TimeoutError">>)
    /\ rc.out.value["optimized_text"] = Str(rc.original)

\* C17: every optimize or classify call returns to its caller in the end,
\* even when the model call never answers.
C17_AlwaysReturns == (rc.pc = "model") ~> (rc.pc = "returned")

\* Once the model call has answered or raised, the statements that follow
\* have no guard but the handler's (AgentCatchesAll): the model call is the
\* only place where a call can stay.

\* ------------------------------------------ claims on denial, reads, reset
\* C18: when check_quota denies a request the handler answers 429 and does
\* nothing else: the request does not go on to the model call (and none is
\* left in flight to run later), the cache and the counters stay as they are.
C18_DenialOnlyRejects ==
    [][\A u \in Users : (CheckStep(u) /\ ~last'.ret)
          => /\ last'.resp = "429"
             /\ req' = req
             /\ cache' = cache
             /\ store' = store]_vars

\* C18 witness: a request of a user whose daily count has reached the limit
\* has just been denied with 429, with no request left in flight
C18_Witness ==
    /\ last.op = "check"
    /\ ~last.ret
    /\ last.resp = "429"
    /\ ~last.readFault
    /\ DailyUsed(last.user) >= plan[last.user].daily_limit
    /\ \A r \in Slots : req[r].pc = "idle"

\* every stored daily and monthly count is after the step what it was before
CountsUnchanged ==
    \A u \in Users, d \in 1..MaxDay :
        /\ StoreGet(store', DailyKey(u, d)) = StoreGet(store, DailyKey(u, d))
        /\ StoreGet(store', MonthlyKey(u, d)) = StoreGet(store, MonthlyKey(u, d))

\* C19: check_quota and get_quota_info are pure reads: a call of either leaves
\* every user's stored daily and monthly count as it was, whether the check
\* allows, denies or the read fails.
C19_ReadsArePure ==
    [][\A u \in Users, readFault \in BOOLEAN :
          (CheckQuotaCall(u, readFault) \/ GetQuotaInfoCall(u, readFault))
              => CountsUnchanged]_vars

\* C19 witness: check_quota has just denied a user whose stored daily count
\* is at the limit, and the count is still there
C19_Witness ==
    /\ last.op = "check_quota"
    /\ ~last.ret
    /\ is_connected
    /\ StoreGet(store, DailyKey(last.user, today)) >= plan[last.user].daily_limit

\* the counts of every user but u are after the step what they were before
OthersUnchanged(u) ==
    \A v \in Users \ {u} :
        /\ DailyUsed(v)' = DailyUsed(v)
        /\ MonthlyUsed(v)' = MonthlyUsed(v)

\* what a reset of the daily or of the monthly counter is to bring about
ResetEffect(u, quota_type) ==
    /\ quota_type = "daily" => (DailyUsed(u)' = 0 /\ MonthlyUsed(u)' = MonthlyUsed(u))
    /\ quota_type = "monthly" => (MonthlyUsed(u)' = 0 /\ DailyUsed(u)' = DailyUsed(u))
    /\ OthersUnchanged(u)

\* C20 as stated: reset_user_quota(user, "daily") makes the daily count read
\* 0 at once and leaves the monthly count, reset_user_quota(user, "monthly")
\* does the same the other way round, and no other user's counter changes.
C20_ResetZeroes ==
    [][\A u \in Users, quota_type \in {"daily", "monthly"}, fault \in ResetFaults :
          ResetCall(u, quota_type, fault) => ResetEffect(u, quota_type)]_vars

\* C20 amended: a reset that returns True has that effect; a reset that
\* returns False (not connected, or the delete raised) changes no counter.
C20_ResetZeroesWhenTrue ==
    [][\A u \in Users, quota_type \in {"daily", "monthly"}, fault \in ResetFaults :
          ResetCall(u, quota_type, fault)
              => IF last'.ret THEN ResetEffect(u, quota_type) ELSE store' = store]_vars

\* C20 witness: a daily reset has returned True for a user who had used
\* quota today; the daily count reads 0 and the monthly count is still there
C20_Witness ==
    /\ last.op = "reset"
    /\ last.quota_type = "daily"
    /\ last.ret
    /\ last.daily_before > 0
    /\ DailyUsed(last.user) = 0
    /\ MonthlyUsed(last.user) = last.monthly_before
    /\ last.monthly_before > 0

\* ------------------------------------------------ claims on the parse order
\* the strict parse fails: no fenced block, or one that does not decode or
\* lacks a required field
StrictFails(fenced, required, members) ==
    ~fenced.found \/ LoadMatch(required, fenced, members).raised \in ParseCaught

\* the outermost {...} block of the raw text, decoded and tested for the
\* required fields
LooseRetry == LoadMatch(RequiredOf(rc.kind), LooseSearch(rc.raw), rc.members)

\* C21: when the strict parse fails, also on a fenced block that is found but
\* does not decode or lacks a required field, the parse decodes the outermost
\* {...} block of the whole text with the same test of the required fields,
\* and goes to the line-oriented extraction only when that fails too: a text
\* whose outermost block passes is parsed to that object.
C21_LooseRetryAfterStrict ==
    (/\ rc.pc = "parsed"
     /\ StrictFails(FencedSearch(rc.raw), RequiredOf(rc.kind), rc.members)
     /\ LooseRetry.raised = "none")
        => rc.out.value = LooseRetry.value

\* what does hold in the case of C21: the outermost block is tried when the
\* text has no fenced block at all
LooseRetryWithoutFence ==
    (/\ rc.pc = "parsed"
     /\ ~FencedSearch(rc.raw).found
     /\ LooseRetry.raised = "none")
        => rc.out.value = LooseRetry.value

\* ------------------------------------------- claims on the length guard
\* the length of the text is below 0.3 times or above 3.0 times the length
\* of the original
RatioOutside(original, text) ==
    \/ 10 * Len(text) < 3 * Len(original)
    \/ Len(text) > 3 * Len(original)

\* the confidence validation returns when no guard touches it: 0.1 after
\* the substitution of the original, else the parsed one (0.5 when absent),
\* clamped to [0, 1]
UnguardedConfidence(result) ==
    IF IsBlank(DictGet(result, "optimized_text", Str(<<>>))) = "yes"
    THEN Num(1)
    ELSE PyMax(Num(0), PyMin(Num(10), DictGet(result, "confidence", Num(5))))

InUnit(v) == v.t = "num" /\ v.c \in 0..100

\* the overall confidence of the result, if it has one, and the confidence of
\* each of its suggestions that has one are within [0, 1]
ConfidencesInUnit(result) ==
    /\ "confidence" \in DOMAIN result => InUnit(result["confidence"])
    /\ result["suggestions"].t = "list" =>
          \A i \in 1..Len(result["suggestions"].l) :
             (/\ result["suggestions"].l[i].t = "dict"
              /\ "confidence" \in DOMAIN result["suggestions"].l[i].d)
                 => InUnit(result["suggestions"].l[i].d["confidence"])

\* C23: in every result returned by a text-optimization or classification
\* path the overall confidence and the confidence of each suggestion are
\* within [0, 1], whatever the model's answer held.
C23_ConfidencesClamped ==
    rc.pc = "returned" => ConfidencesInUnit(rc.out.value)

\* what does hold in the case of C23: the results the service builds itself
\* (the simulation and the result for a response that is no JSON object)
OwnConfidencesInUnit ==
    (/\ rc.pc = "returned"
     /\ rc.source # "model" \/ ~LooksLikeObject(rc.raw)
                            \/ JsonLoads(rc.raw, rc.members).raised # "none")
        => ConfidencesInUnit(rc.out.value)

\* C24: a failed model call of AutoGenAIService.optimize_text or
\* classify_content is recovered into a result and not raised, and the
\* result says that it is degraded: it has an error or a degraded field.
C24_FailureMarkedDegraded ==
    (rc.pc = "returned" /\ rc.source = "failure")
        => /\ rc.out.raised = "none"
           /\ "error" \in DOMAIN rc.out.value \/ "degraded" \in DOMAIN rc.out.value

\* what does hold in the case of C24: no exception reaches the caller
FailureRecovered ==
    (rc.pc = "returned" /\ rc.source = "failure") => rc.out.raised = "none"

\* ------------------------------------------ claims on the quota record
\* the call that led to this state would have exceeded a limit
WouldExceed ==
    \/ rc.daily_used + rc'.request_count > rc.daily_limit
    \/ rc.monthly_used + rc'.request_count > rc.monthly_limit

\* what a call of use_quota does to the used counts
RecordStep ==
    /\ WouldExceed => (/\ ~rc'.ret
                       /\ rc'.daily_used = rc.daily_used
                       /\ rc'.monthly_used = rc.monthly_used)
    /\ rc'.ret => (/\ rc'.daily_used = rc.daily_used + rc'.request_count
                   /\ rc'.monthly_used = rc.monthly_used + rc'.request_count)

C26_CachedAnswerFreeButChecked ==
    [][\A u \in Users :
          CheckStep(u)
              => /\ last'.resp = "200_cached" => (CountsUnchanged /\ req' = req)
                 /\ (Exhausted(u) /\ cache["k"] # "none") => last'.resp = "429"]_vars

\* C26 witness: a user whose daily count is at the limit has just been
\* answered 429 while the result is in the connected cache
C26_Witness ==
    /\ last.op = "check"
    /\ last.resp = "429"
    /\ ~last.readFault
    /\ cache_connected
    /\ cache["k"] # "none"
    /\ DailyUsed(last.user) >= plan[last.user].daily_limit

\* a request has just been answered from the cache
CachedAnswerGiven == last.op = "check" /\ last.resp = "200_cached"

\* C27: the result of the upstream-failure fallback (error set, confidence 0)
\* is never written to the response cache.
C27_FallbackNotCached ==
    \A k \in CacheKeys : cache[k] # "fallback"

\* what does hold in the case of C27: the fallback result gets into the cache
\* only by a handler that finished a request whose model call had raised
FallbackCachedByHandlerOnly ==
    [][\A k \in CacheKeys :
          (cache[k] # "fallback" /\ cache'[k] = "fallback")
              => (last'.op = "complete" /\ last'.result = "fallback")]_vars

\* -------------------------------------- claims on the manager's answers
\* C28: while the quota manager is not connected (initialize failed, or close
\* was called) check_quota allows every request, use_quota returns True and
\* reset_user_quota returns False, and none of the three changes a counter.
C28_DisconnectedManager ==
    [][~is_connected
          => /\ \A u \in Users, readFault \in BOOLEAN :
                   CheckQuotaCall(u, readFault) => (last'.ret /\ store' = store)
             /\ (UseQuotaCall \/ UseQuotaAfterClose) => (last'.ret /\ store' = store)
             /\ \A u \in Users, quota_type \in ResetTypes, fault \in ResetFaults :
                   ResetCall(u, quota_type, fault) => (~last'.ret /\ store' = store)]_vars

\* C28 witness: after close, check_quota has just allowed a user whose stored
\* daily count stands at the daily limit
C28_Witness ==
    /\ svc = "closed"
    /\ ~is_connected
    /\ last.op = "check_quota"
    /\ last.ret
    /\ StoreGet(store, DailyKey(last.user, today)) >= plan[last.user].daily_limit

\* after close, use_quota has returned True and reset_user_quota False with
\* counts in the store
UseAfterCloseSeen ==
    svc = "closed" /\ last.op = "use_quota" /\ last.ret /\ store # <<>>
ResetAfterCloseSeen ==
    svc = "closed" /\ last.op = "reset" /\ ~last.ret /\ last.daily_before >= 1

\* the remaining values of a report are what is left of the limit, and 0
\* when the used count has reached or passed it
RemainingRight(info) ==
    /\ info.daily_remaining >= 0
    /\ info.monthly_remaining >= 0
    /\ info.daily_remaining =
          IF info.daily_used >= info.daily_limit THEN 0
          ELSE info.daily_limit - info.daily_used
    /\ info.monthly_remaining =
          IF info.monthly_used >= info.monthly_limit THEN 0
          ELSE info.monthly_limit - info.monthly_used

\* C29: every report of get_quota_info has daily_remaining = max(0,
\* daily_limit - daily_used) and monthly_remaining = max(0, monthly_limit -
\* monthly_used), never negative, and check_quota allows exactly when the
\* report of the same state and the same reads exists and both its remaining
\* values are greater than 0.
C29_RemainingAndCheckAgree ==
    [][\A u \in Users, readFault \in BOOLEAN :
          /\ (GetQuotaInfoCall(u, readFault) /\ last'.info # NoInfo)
                => RemainingRight(last'.info)
          /\ CheckQuotaCall(u, readFault)
                => (last'.ret <=>
                      /\ GetQuotaInfo(store, is_connected, today, u, readFault) # NoInfo
                      /\ GetQuotaInfo(store, is_connected, today, u, readFault).daily_remaining > 0
                      /\ GetQuotaInfo(store, is_connected, today, u, readFault).monthly_remaining > 0)]_vars

\* C29 witness: a report for a user whose daily count has passed the daily
\* limit says that nothing remains of the day and something of the month
C29_Witness ==
    /\ last.op = "get_quota_info"
    /\ last.info # NoInfo
    /\ last.info.daily_used > last.info.daily_limit
    /\ last.info.daily_remaining = 0
    /\ last.info.monthly_remaining > 0

\* check_quota has just denied a user of whose day nothing remains
DeniedWithNothingLeft ==
    /\ last.op = "check_quota"
    /\ ~last.ret
    /\ is_connected
    /\ Report(last.user).daily_remaining = 0
====
